---- MODULE Spec2Model ----
(***************************************************************************)
(* Model of scripts/create_final_csv.py: a sequential script that loads    *)
(* the transformed Superstore data set and writes three dimension files    *)
(* and one fact file.  The state is the script's position, the input file, *)
(* the loaded dataframe, the four tables it builds, the files it writes    *)
(* and the lines it prints.  The file system the script runs on (whether   *)
(* the output folder exists or can be made, which output files can be      *)
(* written) is part of the initial state.                                  *)
(*                                                                         *)
(* A dataframe is a record [columns, dtypes, rows]: the column names in    *)
(* order, the dtype of each column and the rows as functions from column   *)
(* name to cell.  A cell is a string (a sequence of characters; opaque     *)
(* values such as identifiers are one-token sequences), a timestamp, or    *)
(* one of the two missing markers NaN and NaT.                             *)
(***************************************************************************)
EXTENDS Integers, Sequences, FiniteSets, TLC

VARIABLES pc, fs, input, df, customers_df, products_df, ship_modes_df,
          fact_sales_df, files, log

vars == <<pc, fs, input, df, customers_df, products_df, ship_modes_df,
          fact_sales_df, files, log>>

(***************************************************************************)
(* Bounds of the model.                                                    *)
(***************************************************************************)
MaxRows == 3
MaxMissing == 2

(***************************************************************************)
(* Cells.                                                                  *)
(***************************************************************************)
Str(s) == [kind |-> "str", s |-> s]
Tok(t) == Str(<<t>>)
NaN == [kind |-> "NaN"]
NaT == [kind |-> "NaT"]
Timestamp(y, m, d, tz) == [kind |-> "ts", y |-> y, m |-> m, d |-> d, tz |-> tz]

IsNull(c) == c.kind \in {"NaN", "NaT"}

Range(s) == {s[i] : i \in 1..Len(s)}

(***************************************************************************)
(* Column lists of the script.                                             *)
(***************************************************************************)
customer_cols ==
  <<"Customer ID", "Customer Name", "Segment", "Country", "City", "State",
    "Postal Code", "Region">>

product_cols == <<"Product ID", "Product Name", "Category", "Sub-Category">>

ship_mode_col == "Ship Mode"

fact_sales_sql_columns ==
  <<"OrderID", "CustomerID", "ProductID", "OrderDate", "ShipDate", "ShipMode",
    "Sales", "Order_Year", "Order_Month", "Order_Day", "Order_Weekday",
    "Shipping_Delay", "Log_Sales", "Scaled_Sales">>

fact_sales_df_columns ==
  <<"Order ID", "Customer ID", "Product ID", "Order Date", "Ship Date",
    "Ship Mode", "Sales", "Order_Year", "Order_Month", "Order_Day",
    "Order_Weekday", "Shipping_Delay", "Log_Sales", "Scaled_Sales">>

(* The columns of the transformed file, in file order.  "Row ID" is a      *)
(* column of the data set that no table uses.                              *)
AllColumns ==
  <<"Row ID", "Order ID", "Order Date", "Ship Date", "Ship Mode",
    "Customer ID", "Customer Name", "Segment", "Country", "City", "State",
    "Postal Code", "Region", "Product ID", "Category", "Sub-Category",
    "Product Name", "Sales", "Order_Year", "Order_Month", "Order_Day",
    "Order_Weekday", "Shipping_Delay", "Log_Sales", "Scaled_Sales">>

Tables == {"customers", "products", "shipmode", "fact"}

(***************************************************************************)
(* pd.to_datetime(..., errors='coerce') on one cell, for the ISO texts     *)
(* YYYY-MM-DD and YYYY-MM-DD+HH:MM: a text that is a calendar date becomes *)
(* a timestamp, anything else (other text, an impossible date, a missing   *)
(* cell) becomes NaT.                                                      *)
(***************************************************************************)
Digits == <<"0", "1", "2", "3", "4", "5", "6", "7", "8", "9">>

IsDigit(c) == c \in Range(Digits)

DigitVal(c) == CHOOSE n \in 0..9 : Digits[n + 1] = c

Num(s) ==
  LET F[i \in 0..Len(s)] == IF i = 0 THEN 0 ELSE 10 * F[i - 1] + DigitVal(s[i])
  IN F[Len(s)]

AllDigits(s) == \A i \in 1..Len(s) : IsDigit(s[i])

IsLeap(y) == (y % 4 = 0 /\ y % 100 # 0) \/ y % 400 = 0

DaysInMonth(y, m) ==
  IF m = 2 THEN (IF IsLeap(y) THEN 29 ELSE 28)
  ELSE IF m \in {4, 6, 9, 11} THEN 30 ELSE 31

IsOffset(s) ==
  /\ Len(s) = 6
  /\ s[1] \in {"+", "-"}
  /\ AllDigits(SubSeq(s, 2, 3))
  /\ s[4] = ":"
  /\ AllDigits(SubSeq(s, 5, 6))

IsDateText(s) ==
  /\ Len(s) \in {10, 16}
  /\ AllDigits(SubSeq(s, 1, 4))
  /\ s[5] = "-"
  /\ AllDigits(SubSeq(s, 6, 7))
  /\ s[8] = "-"
  /\ AllDigits(SubSeq(s, 9, 10))
  /\ Num(SubSeq(s, 6, 7)) \in 1..12
  /\ Num(SubSeq(s, 9, 10)) \in
       1..DaysInMonth(Num(SubSeq(s, 1, 4)), Num(SubSeq(s, 6, 7)))
  /\ Len(s) = 16 => IsOffset(SubSeq(s, 11, 16))

(* Variant of to_datetime_cell that leaves a text it cannot convert as it  *)
(* is (errors='ignore').                                                   *)
to_datetime_cell_ignore(c) ==
  IF c.kind = "ts" THEN c
  ELSE IF c.kind = "str" /\ IsDateText(c.s)
  THEN Timestamp(Num(SubSeq(c.s, 1, 4)), Num(SubSeq(c.s, 6, 7)),
                 Num(SubSeq(c.s, 9, 10)), SubSeq(c.s, 11, Len(c.s)))
  ELSE IF c.kind = "str" THEN c
  ELSE NaT

to_datetime_cell(c) ==
  IF c.kind = "ts" THEN c
  ELSE IF c.kind = "str" /\ IsDateText(c.s)
  THEN Timestamp(Num(SubSeq(c.s, 1, 4)), Num(SubSeq(c.s, 6, 7)),
                 Num(SubSeq(c.s, 9, 10)), SubSeq(c.s, 11, Len(c.s)))
  ELSE NaT

(***************************************************************************)
(* Series.dt.strftime('%Y-%m-%d') on one cell of a datetime column: the    *)
(* ten characters YYYY-MM-DD of a timestamp, NaN for NaT.                  *)
(***************************************************************************)
DigitsOf(n, width) == [i \in 1..width |-> Digits[((n \div (10 ^ (width - i))) % 10) + 1]]

strftime_cell(c) ==
  IF c.kind = "ts"
  THEN Str(DigitsOf(c.y, 4) \o <<"-">> \o DigitsOf(c.m, 2) \o <<"-">> \o DigitsOf(c.d, 2))
  ELSE NaN

(***************************************************************************)
(* Dataframe operations used by the script.                                *)
(***************************************************************************)
NoFrame == [kind |-> "none"]

NoFile == [kind |-> "nofile"]

Garbage == [kind |-> "garbage"]

HasColumn(frame, c) == c \in Range(frame.columns)

(* len(frame) *)
NRows(frame) == Len(frame.rows)

(* rows[i] for the i in keep, in order *)
FilterRows(rows, keep) ==
  LET F[i \in 0..Len(rows)] ==
        IF i = 0 THEN <<>>
        ELSE IF i \in keep THEN Append(F[i - 1], rows[i]) ELSE F[i - 1]
  IN F[Len(rows)]

(* frame[cols] *)
Select(frame, cols) ==
  [columns |-> cols,
   dtypes |-> [c \in Range(cols) |-> frame.dtypes[c]],
   rows |-> [i \in 1..Len(frame.rows) |-> [c \in Range(cols) |-> frame.rows[i][c]]]]

(* Variant of drop_duplicates that keeps the last row of each key          *)
(* (keep='last').                                                          *)
drop_duplicates_keep_last(frame, key) ==
  [frame EXCEPT !.rows =
     FilterRows(frame.rows,
                {i \in 1..Len(frame.rows) :
                   \A j \in (i + 1)..Len(frame.rows) :
                     frame.rows[j][key] # frame.rows[i][key]})]

(* frame.drop_duplicates(subset=[key]).reset_index(drop=True): a row is    *)
(* dropped when an earlier row has the same key cell (missing keys are     *)
(* equal to each other).                                                   *)
drop_duplicates(frame, key) ==
  [frame EXCEPT !.rows =
     FilterRows(frame.rows,
                {i \in 1..Len(frame.rows) :
                   \A j \in 1..(i - 1) : frame.rows[j][key] # frame.rows[i][key]})]

(* pd.DataFrame(frame[c].unique(), columns=[c]): the distinct cells of the *)
(* column in order of first appearance, a missing cell included.           *)
unique_frame(frame, c) ==
  [columns |-> <<c>>,
   dtypes |-> [x \in {c} |-> frame.dtypes[c]],
   rows |-> FilterRows([i \in 1..Len(frame.rows) |-> [x \in {c} |-> frame.rows[i][c]]],
                       {i \in 1..Len(frame.rows) :
                          \A j \in 1..(i - 1) : frame.rows[j][c] # frame.rows[i][c]})]

(* Variant of dropna that removes nothing *)
dropna_keep_all(frame) == frame

(* frame.dropna().reset_index(drop=True) *)
dropna(frame) ==
  [frame EXCEPT !.rows =
     FilterRows(frame.rows,
                {i \in 1..Len(frame.rows) :
                   \A c \in Range(frame.columns) : ~IsNull(frame.rows[i][c])})]

(* frame[c].isnull().any() *)
AnyNull(frame, c) == \E i \in 1..Len(frame.rows) : IsNull(frame.rows[i][c])

(* frame[c] = pd.to_datetime(frame[c], errors='coerce').  The column is a  *)
(* datetime column when the parsed values agree on their UTC offset; with  *)
(* mixed offsets pandas (before 3.0) returns an object column of datetime  *)
(* objects, the case the script's AttributeError handler is written for.   *)
coerce_dates(frame, c) ==
  LET cells == [i \in 1..Len(frame.rows) |-> to_datetime_cell(frame.rows[i][c])]
      zones == {cells[i].tz : i \in {j \in 1..Len(cells) : cells[j].kind = "ts"}}
  IN [frame EXCEPT
        !.rows = [i \in 1..Len(frame.rows) |-> [frame.rows[i] EXCEPT ![c] = cells[i]]],
        !.dtypes = [frame.dtypes EXCEPT
                      ![c] = IF Cardinality(zones) <= 1 THEN "datetime64" ELSE "object"]]

(* frame.rename(columns=dict(zip(old, new))) *)
IndexOf(seq, x) == CHOOSE i \in 1..Len(seq) : seq[i] = x

(* Variant of rename that pairs each old name with the next new name,      *)
(* the last with the first.                                                *)
rename_shifted(frame, old, new) ==
  LET to(c) == IF c \in Range(old) THEN new[(IndexOf(old, c) % Len(new)) + 1] ELSE c
      from(c) == CHOOSE x \in Range(frame.columns) : to(x) = c
      cols == [i \in 1..Len(frame.columns) |-> new[i]]
  IN [columns |-> cols,
      dtypes |-> [c \in Range(cols) |-> frame.dtypes[from(c)]],
      rows |-> [i \in 1..Len(frame.rows) |-> [c \in Range(cols) |-> frame.rows[i][from(c)]]]]

rename(frame, old, new) ==
  LET to(c) == IF c \in Range(old) THEN new[IndexOf(old, c)] ELSE c
      from(c) == CHOOSE x \in Range(frame.columns) : to(x) = c
      cols == [i \in 1..Len(frame.columns) |-> to(frame.columns[i])]
  IN [columns |-> cols,
      dtypes |-> [c \in Range(cols) |-> frame.dtypes[from(c)]],
      rows |-> [i \in 1..Len(frame.rows) |-> [c \in Range(cols) |-> frame.rows[i][from(c)]]]]

(* frame[c] = frame[c].dt.strftime('%Y-%m-%d') on a datetime column *)
strftime_column(frame, c) ==
  [frame EXCEPT
     !.rows = [i \in 1..Len(frame.rows) |->
                 [frame.rows[i] EXCEPT ![c] = strftime_cell(frame.rows[i][c])]],
     !.dtypes = [frame.dtypes EXCEPT ![c] = "object"]]

(* The .dt accessor exists only on a datetime column; on any other column  *)
(* it raises AttributeError.                                               *)
HasDt(frame, c) == frame.dtypes[c] = "datetime64"

(***************************************************************************)
(* Printed lines.                                                          *)
(***************************************************************************)
NoCount == -1

Msg(kind, table, cols, n) == [kind |-> kind, table |-> table, cols |-> cols, n |-> n]

(***************************************************************************)
(* The input files the model starts from.                                  *)
(***************************************************************************)
Chars(y, m, d) == DigitsOf(y, 4) \o <<"-">> \o DigitsOf(m, 2) \o <<"-">> \o DigitsOf(d, 2)

(* One line of the transformed file: customer key cid with attribute       *)
(* variant ca, product key pid with attribute variant pa, ship mode and    *)
(* the two date texts.                                                     *)
MkRow(cid, ca, pid, pa, mode, od, sd) ==
  [c \in Range(AllColumns) |->
     CASE c = "Row ID" -> Tok("1")
       [] c = "Order ID" -> Tok("CA-2017-152156")
       [] c = "Order Date" -> od
       [] c = "Ship Date" -> sd
       [] c = "Ship Mode" -> mode
       [] c = "Customer ID" -> cid
       [] c = "Customer Name" -> Tok(IF ca = 1 THEN "Claire Gute" ELSE "C. Gute")
       [] c = "Segment" -> Tok(IF ca = 1 THEN "Consumer" ELSE "Corporate")
       [] c = "Country" -> Tok("United States")
       [] c = "City" -> Tok(IF ca = 1 THEN "Henderson" ELSE "Los Angeles")
       [] c = "State" -> Tok(IF ca = 1 THEN "Kentucky" ELSE "California")
       [] c = "Postal Code" -> Tok(IF ca = 1 THEN "42420" ELSE "90036")
       [] c = "Region" -> Tok(IF ca = 1 THEN "South" ELSE "West")
       [] c = "Product ID" -> pid
       [] c = "Category" -> Tok(IF pa = 1 THEN "Furniture" ELSE "Office Supplies")
       [] c = "Sub-Category" -> Tok(IF pa = 1 THEN "Bookcases" ELSE "Labels")
       [] c = "Product Name" -> Tok(IF pa = 1 THEN "Bush Bookcase" ELSE "Bush Bookcase, Oak")
       [] c = "Sales" -> Tok("261.96")
       [] c = "Order_Year" -> Tok("2017")
       [] c = "Order_Month" -> Tok("11")
       [] c = "Order_Day" -> Tok("8")
       [] c = "Order_Weekday" -> Tok("2")
       [] c = "Shipping_Delay" -> Tok("3")
       [] c = "Log_Sales" -> Tok("5.57")
       [] c = "Scaled_Sales" -> Tok("0.01")]

Date1 == Str(Chars(2023, 3, 5))

Date2 == Str(Chars(2024, 2, 29))

BadDate == Str(Chars(2023, 2, 30))

Date1Plus1 == Str(Chars(2023, 3, 5) \o <<"+", "0", "1", ":", "0", "0">>)

Date2Minus5 == Str(Chars(2024, 2, 29) \o <<"-", "0", "5", ":", "0", "0">>)

(* Rows that differ in the keys and attributes of the two keyed dimensions *)
DimRows ==
  {MkRow(Tok("CG-12520"), 1, Tok("FUR-BO-10001798"), 1, Tok("Second Class"), Date1, Date2),
   MkRow(Tok("CG-12520"), 2, Tok("OFF-LA-10000240"), 1, Tok("Second Class"), Date1, Date2),
   MkRow(Tok("DV-13045"), 1, Tok("FUR-BO-10001798"), 2, Tok("Second Class"), Date1, Date2),
   MkRow(Tok("DV-13045"), 2, Tok("OFF-LA-10000240"), 2, Tok("Second Class"), Date1, Date2),
   MkRow(NaN, 1, NaN, 2, Tok("Second Class"), Date1, Date2),
   MkRow(NaN, 2, NaN, 1, Tok("Second Class"), Date1, Date2)}

(* Rows that differ in the ship mode *)
ShipRows ==
  {MkRow(Tok("CG-12520"), 1, Tok("FUR-BO-10001798"), 1, mode, Date1, Date2) :
     mode \in {Tok("Standard Class"), Tok("Express"), NaN}}

(* Rows that differ in the two date texts *)
DateRows ==
  {MkRow(Tok("CG-12520"), 1, Tok("FUR-BO-10001798"), 1, Tok("Second Class"), p[1], p[2]) :
     p \in {<<Date1, Date2>>, <<BadDate, NaN>>, <<Date1Plus1, Date1>>,
            <<Date2Minus5, Date2>>, <<Date2, Date2Minus5>>, <<Date1, Date1Plus1>>}}

SeqsUpTo(S, n) == UNION {[1..k -> S] : k \in 0..n}

SubsetsUpTo(S, n) ==
  LET F[k \in 0..n] ==
        IF k = 0 THEN {{}} ELSE F[k - 1] \cup {M \cup {x} : M \in F[k - 1], x \in S}
  IN F[n]

(* One column of each group of columns that the same tables require, both  *)
(* date columns, and the column the product dimension alone requires.      *)
MissableColumns ==
  {"Row ID", "Order ID", "Order Date", "Ship Date", "Ship Mode", "Customer ID",
   "Region", "Product ID", "Sub-Category", "Sales"}

(* pd.read_csv of a file with the given columns and lines *)
Frame(cols, rows) ==
  [columns |-> cols,
   dtypes |-> [c \in Range(cols) |-> "object"],
   rows |-> [i \in 1..Len(rows) |-> [c \in Range(cols) |-> rows[i][c]]]]

(* Files with every column *)
FullInputs ==
  {Frame(AllColumns, rows) :
     rows \in SeqsUpTo(DimRows, MaxRows) \cup SeqsUpTo(ShipRows, MaxRows)
              \cup SeqsUpTo(DateRows, MaxRows)}

(* Files that lack up to MaxMissing columns *)
PartialInputs ==
  {Frame(SelectSeq(AllColumns, LAMBDA c : c \notin M), rows) :
     M \in SubsetsUpTo(MissableColumns, MaxMissing),
     rows \in {<<MkRow(Tok("CG-12520"), 1, Tok("FUR-BO-10001798"), 1,
                       Tok("Second Class"), Date1, Date2)>>,
               <<MkRow(Tok("CG-12520"), 1, Tok("FUR-BO-10001798"), 1,
                       Tok("Second Class"), NaN, BadDate)>>}}

(* File systems: the output folder exists, is missing and can be made, or  *)
(* is missing and cannot be made; each output file can be written or not.  *)
FsOK == [folder |-> "exists", writable |-> [t \in Tables |-> TRUE]]

FileSystems ==
  {f \in [folder : {"exists", "missing", "uncreatable"}, writable : [Tables -> BOOLEAN]] :
     f.folder = "exists" \/ f.writable = FsOK.writable}

Init ==
  /\ pc = "mkdir"
  /\ \/ input \in FullInputs /\ fs = FsOK
     \/ input \in {NoFile, Garbage} \cup PartialInputs /\ fs \in FileSystems
  /\ df = NoFrame
  /\ customers_df = NoFrame
  /\ products_df = NoFrame
  /\ ship_modes_df = NoFrame
  /\ fact_sales_df = NoFrame
  /\ files = [t \in Tables |-> NoFile]
  /\ log = <<>>

(***************************************************************************)
(* The steps of the script.                                                *)
(***************************************************************************)
Emit(lines) == log' = log \o lines

(* Variant of EnsureOutputFolder that goes on to the load after an OSError *)
EnsureOutputFolder_continue ==
  /\ pc = "mkdir"
  /\ pc' = "load"
  /\ fs' = IF fs.folder = "missing" THEN [fs EXCEPT !.folder = "exists"] ELSE fs
  /\ Emit(CASE fs.folder = "exists" -> <<>>
             [] fs.folder = "missing" -> <<Msg("folder_created", "", <<>>, NoCount)>>
             [] fs.folder = "uncreatable" -> <<Msg("folder_error", "", <<>>, NoCount)>>)
  /\ UNCHANGED <<input, df, customers_df, products_df, ship_modes_df,
                 fact_sales_df, files>>

(* Lines 20-27: create the output folder when it does not exist; an        *)
(* OSError ends the run.                                                   *)
EnsureOutputFolder ==
  /\ pc = "mkdir"
  /\ pc' = IF fs.folder = "uncreatable" THEN "exited" ELSE "load"
  /\ fs' = IF fs.folder = "missing" THEN [fs EXCEPT !.folder = "exists"] ELSE fs
  /\ Emit(CASE fs.folder = "exists" -> <<>>
             [] fs.folder = "missing" -> <<Msg("folder_created", "", <<>>, NoCount)>>
             [] fs.folder = "uncreatable" -> <<Msg("folder_error", "", <<>>, NoCount)>>)
  /\ UNCHANGED <<input, df, customers_df, products_df, ship_modes_df,
                 fact_sales_df, files>>

(* Lines 36-39: the date columns that are present are converted *)
Reconvert(frame) ==
  LET f1 == IF HasColumn(frame, "Order Date") THEN coerce_dates(frame, "Order Date") ELSE frame
  IN IF HasColumn(f1, "Ship Date") THEN coerce_dates(f1, "Ship Date") ELSE f1

(* Line 42: df['Order Date'].isnull().any() or df['Ship Date'].isnull().any() *)
(* The result is "keyerror" with the column whose lookup raised, or the    *)
(* truth value; 'or' does not evaluate its right operand when the left one *)
(* is true.                                                                *)
NullCheck(frame) ==
  IF ~HasColumn(frame, "Order Date") THEN [raised |-> TRUE, col |-> "Order Date", any |-> FALSE]
  ELSE IF AnyNull(frame, "Order Date") THEN [raised |-> FALSE, col |-> "", any |-> TRUE]
  ELSE IF ~HasColumn(frame, "Ship Date") THEN [raised |-> TRUE, col |-> "Ship Date", any |-> FALSE]
  ELSE [raised |-> FALSE, col |-> "", any |-> AnyNull(frame, "Ship Date")]

(* Lines 30-51: load the file, convert the dates, warn about missing dates. *)
(* FileNotFoundError and any other exception end the run.                  *)
LoadData ==
  /\ pc = "load"
  /\ IF input = NoFile
     THEN /\ Emit(<<Msg("loading", "", <<>>, NoCount), Msg("not_found", "", <<>>, NoCount)>>)
          /\ pc' = "exited"
          /\ df' = df
     ELSE IF input = Garbage
     THEN /\ Emit(<<Msg("loading", "", <<>>, NoCount), Msg("load_error", "", <<>>, NoCount)>>)
          /\ pc' = "exited"
          /\ df' = df
     ELSE LET frame == Reconvert(input)
              check == NullCheck(frame)
          IN /\ df' = frame
             /\ pc' = IF check.raised THEN "exited" ELSE "customers"
             /\ Emit(<<Msg("loading", "", <<>>, NoCount),
                        Msg("loaded", "", <<>>, NRows(input))>>
                      \o (IF check.raised
                          THEN <<Msg("load_error", "", <<check.col>>, NoCount)>>
                          ELSE IF check.any
                          THEN <<Msg("nat_warning", "", <<>>, NoCount)>>
                          ELSE <<>>))
  /\ UNCHANGED <<fs, input, customers_df, products_df, ship_modes_df, fact_sales_df, files>>

(* frame.to_csv(path, index=False, encoding='utf-8-sig') inside try/except: *)
(* the file holds the table, or the file cannot be opened, the error is    *)
(* printed and no file is made.                                            *)
Save(table, frame) ==
  LET ok == fs.writable[table] IN
  /\ files' = IF ok THEN [files EXCEPT ![table] = frame] ELSE files
  /\ Emit(<<Msg("creating", table, <<>>, NoCount)>>
           \o (IF ok THEN <<Msg("saved", table, <<>>, NRows(frame))>>
               ELSE <<Msg("save_error", table, <<>>, NoCount)>>))

(* The else branch of a dimension's column test: a line that names no column *)
Skip(table) ==
  /\ files' = files
  /\ Emit(<<Msg("creating", table, <<>>, NoCount),
             Msg("missing_columns", table, <<>>, NoCount)>>)

(* Lines 56-69 *)
CreateCustomers ==
  /\ pc = "customers"
  /\ pc' = "products"
  /\ IF \A i \in 1..Len(customer_cols) : HasColumn(df, customer_cols[i])
     THEN /\ customers_df' = drop_duplicates(Select(df, customer_cols), "Customer ID")
          /\ Save("customers", customers_df')
     ELSE /\ customers_df' = customers_df
          /\ Skip("customers")
  /\ UNCHANGED <<fs, input, df, products_df, ship_modes_df, fact_sales_df>>

(* Variant of CreateProducts that leaves the script when a column is       *)
(* missing or the file cannot be written.                                  *)
CreateProducts_abort ==
  /\ pc = "products"
  /\ IF \A i \in 1..Len(product_cols) : HasColumn(df, product_cols[i])
     THEN /\ products_df' = drop_duplicates(Select(df, product_cols), "Product ID")
          /\ Save("products", products_df')
          /\ pc' = IF fs.writable["products"] THEN "shipmode" ELSE "exited"
     ELSE /\ products_df' = products_df
          /\ Skip("products")
          /\ pc' = "exited"
  /\ UNCHANGED <<fs, input, df, customers_df, ship_modes_df, fact_sales_df>>

(* Lines 72-84 *)
CreateProducts ==
  /\ pc = "products"
  /\ pc' = "shipmode"
  /\ IF \A i \in 1..Len(product_cols) : HasColumn(df, product_cols[i])
     THEN /\ products_df' = drop_duplicates(Select(df, product_cols), "Product ID")
          /\ Save("products", products_df')
     ELSE /\ products_df' = products_df
          /\ Skip("products")
  /\ UNCHANGED <<fs, input, df, customers_df, ship_modes_df, fact_sales_df>>

(* Lines 87-99 *)
CreateShipModes ==
  /\ pc = "shipmode"
  /\ pc' = "fact"
  /\ IF HasColumn(df, ship_mode_col)
     THEN /\ ship_modes_df' = dropna(unique_frame(df, ship_mode_col))
          /\ Save("shipmode", ship_modes_df')
     ELSE /\ ship_modes_df' = ship_modes_df
          /\ Skip("shipmode")
  /\ UNCHANGED <<fs, input, df, customers_df, products_df, fact_sales_df>>

(* Variant of missing_cols that stops at the first missing column *)
missing_cols_first(frame) ==
  LET all == SelectSeq(fact_sales_df_columns, LAMBDA c : ~HasColumn(frame, c))
  IN IF all = <<>> THEN <<>> ELSE <<all[1]>>

(* Line 119 *)
missing_cols(frame) == SelectSeq(fact_sales_df_columns, LAMBDA c : ~HasColumn(frame, c))

(* Lines 134-140: both conversions are in one try block, so the first      *)
(* AttributeError leaves the rest of the block undone.                     *)
FormatDates(frame) ==
  IF ~HasDt(frame, "OrderDate") THEN [frame |-> frame, failed |-> TRUE]
  ELSE LET f1 == strftime_column(frame, "OrderDate")
       IN IF ~HasDt(f1, "ShipDate") THEN [frame |-> f1, failed |-> TRUE]
          ELSE [frame |-> strftime_column(f1, "ShipDate"), failed |-> FALSE]

(* Lines 102-149 *)
CreateFactSales ==
  /\ pc = "fact"
  /\ pc' = "completion"
  /\ IF missing_cols(df) # <<>>
     THEN /\ fact_sales_df' = fact_sales_df
          /\ files' = files
          /\ Emit(<<Msg("creating", "fact", <<>>, NoCount),
                     Msg("missing_columns", "fact", missing_cols(df), NoCount),
                     Msg("available_columns", "fact", df.columns, NoCount)>>)
     ELSE \E renamed \in {rename(Select(df, fact_sales_df_columns),
                                   fact_sales_df_columns, fact_sales_sql_columns)} :
          \E formatted \in {FormatDates(renamed)} :
          LET ok == fs.writable["fact"]
          IN /\ fact_sales_df' = formatted.frame
             /\ files' = IF ok THEN [files EXCEPT !["fact"] = formatted.frame] ELSE files
             /\ Emit(<<Msg("creating", "fact", <<>>, NoCount),
                        Msg("selected", "fact", <<>>, Len(fact_sales_sql_columns)),
                        Msg("formatting", "fact", <<>>, NoCount)>>
                      \o (IF formatted.failed
                          THEN <<Msg("format_warning", "fact", <<>>, NoCount)>>
                          ELSE <<>>)
                      \o (IF ok
                          THEN <<Msg("saved", "fact", <<>>, NRows(formatted.frame))>>
                          ELSE <<Msg("save_error", "fact", <<>>, NoCount)>>))
  /\ UNCHANGED <<fs, input, df, customers_df, products_df, ship_modes_df>>

(* Line 152 *)
Completion ==
  /\ pc = "completion"
  /\ pc' = "done"
  /\ Emit(<<Msg("completion", "", <<>>, NoCount)>>)
  /\ UNCHANGED <<fs, input, df, customers_df, products_df, ship_modes_df,
                 fact_sales_df, files>>

Next ==
  \/ EnsureOutputFolder
  \/ LoadData
  \/ CreateCustomers
  \/ CreateProducts
  \/ CreateShipModes
  \/ CreateFactSales
  \/ Completion

Spec == Init /\ [][Next]_vars

(***************************************************************************)
(* Vocabulary of the properties.                                           *)
(***************************************************************************)
HasMsg(kind, table) == \E i \in 1..Len(log) : log[i].kind = kind /\ log[i].table = table

MsgCount(kind, table) ==
  Cardinality({i \in 1..Len(log) : log[i].kind = kind /\ log[i].table = table})

(* The position in the log of the line that opens a table's section *)
AttemptIndex(table) == CHOOSE i \in 1..Len(log) : log[i].kind = "creating" /\ log[i].table = table

(* The columns each table requires *)
Required(table) ==
  CASE table = "customers" -> Range(customer_cols)
    [] table = "products" -> Range(product_cols)
    [] table = "shipmode" -> {ship_mode_col}
    [] table = "fact" -> Range(fact_sales_df_columns)

(* The table a section has built in memory *)
Built(table) ==
  CASE table = "customers" -> customers_df
    [] table = "products" -> products_df
    [] table = "shipmode" -> ship_modes_df
    [] table = "fact" -> fact_sales_df

TableOrder == <<"customers", "products", "shipmode", "fact">>

(* The sections that have run when the script is at pc *)
Stage(p) ==
  CASE p = "customers" -> 0
    [] p = "products" -> 1
    [] p = "shipmode" -> 2
    [] p = "fact" -> 3
    [] p \in {"completion", "done"} -> 4
    [] OTHER -> -1

HasRun(table) == \E n \in 1..Stage(pc) : TableOrder[n] = table

(* The load block has run to its end without leaving the script *)
LoadCompleted == HasMsg("loaded", "") /\ ~HasMsg("load_error", "")

(* The first row of rows whose cell in column key is k *)
FirstIndex(rows, key, k) ==
  CHOOSE i \in 1..Len(rows) : rows[i][key] = k /\ \A j \in 1..(i - 1) : rows[j][key] # k

(* C1: a keyed dimension holds, for each key value of the loaded relation, *)
(* the projection of the first row that has it, in first-occurrence order. *)
IsKeyedDimension(dim, cols, key) ==
  LET R == df.rows
      out == dim.rows
  IN /\ dim.columns = cols
     /\ \A a, b \in 1..Len(out) : a # b => out[a][key] # out[b][key]
     /\ \A a \in 1..Len(out) : \E i \in 1..Len(R) : R[i][key] = out[a][key]
     /\ \A i \in 1..Len(R) : \E a \in 1..Len(out) : out[a][key] = R[i][key]
     /\ \A a, b \in 1..Len(out) :
          a < b => FirstIndex(R, key, out[a][key]) < FirstIndex(R, key, out[b][key])
     /\ \A a \in 1..Len(out) :
          /\ DOMAIN out[a] = Range(cols)
          /\ \A c \in Range(cols) : out[a][c] = R[FirstIndex(R, key, out[a][key])][c]

(* C1: once its section has run on a relation with all its columns, the    *)
(* customer dimension (key Customer ID) and the product dimension (key     *)
(* Product ID) are the first-occurrence rows of the relation projected on  *)
(* the dimension's columns: unique keys, every key of the relation, in     *)
(* first-occurrence order, with the first row's attribute values.          *)
C1_KeyedDimensions ==
  /\ (HasRun("customers") /\ Required("customers") \subseteq Range(df.columns))
       => /\ customers_df # NoFrame
          /\ IsKeyedDimension(customers_df, customer_cols, "Customer ID")
  /\ (HasRun("products") /\ Required("products") \subseteq Range(df.columns))
       => /\ products_df # NoFrame
          /\ IsKeyedDimension(products_df, product_cols, "Product ID")

(* Both dimensions were built from three rows of which the first and the   *)
(* last share a customer key and the first two a product key, with         *)
(* different attribute values.                                             *)
C1_Witness ==
  /\ pc = "done"
  /\ customers_df # NoFrame /\ products_df # NoFrame
  /\ Len(df.rows) = 3
  /\ df.rows[1]["Customer ID"] = df.rows[3]["Customer ID"]
  /\ df.rows[1]["Customer Name"] # df.rows[3]["Customer Name"]
  /\ df.rows[1]["Customer ID"] # df.rows[2]["Customer ID"]
  /\ df.rows[1]["Product ID"] = df.rows[2]["Product ID"]
  /\ df.rows[1]["Category"] # df.rows[2]["Category"]
  /\ Len(customers_df.rows) = 2 /\ Len(products_df.rows) = 2

(* C7: once its section has run on a relation that has 'Ship Mode', the    *)
(* ship-mode dimension is one column named 'Ship Mode' holding the         *)
(* distinct non-missing values of the relation's column in order of first  *)
(* appearance: no missing row, no value twice, every non-missing value of  *)
(* the relation once.                                                      *)
C7_ShipModeDimension ==
  (HasRun("shipmode") /\ ship_mode_col \in Range(df.columns)) =>
    LET R == df.rows
        out == ship_modes_df.rows
    IN /\ ship_modes_df # NoFrame
       /\ ship_modes_df.columns = <<"Ship Mode">>
       /\ \A a \in 1..Len(out) : DOMAIN out[a] = {"Ship Mode"} /\ ~IsNull(out[a]["Ship Mode"])
       /\ \A a, b \in 1..Len(out) : a # b => out[a]["Ship Mode"] # out[b]["Ship Mode"]
       /\ \A a \in 1..Len(out) : \E i \in 1..Len(R) : R[i]["Ship Mode"] = out[a]["Ship Mode"]
       /\ \A i \in 1..Len(R) :
            ~IsNull(R[i]["Ship Mode"]) =>
              Cardinality({a \in 1..Len(out) : out[a]["Ship Mode"] = R[i]["Ship Mode"]}) = 1
       /\ \A a, b \in 1..Len(out) :
            a < b => FirstIndex(R, "Ship Mode", out[a]["Ship Mode"])
                       < FirstIndex(R, "Ship Mode", out[b]["Ship Mode"])

(* The ship-mode dimension has one row although the relation has three     *)
(* rows: a value, a missing cell and the same value again.                 *)
C7_Witness ==
  /\ pc = "done"
  /\ ship_modes_df # NoFrame
  /\ Len(df.rows) = 3
  /\ ~IsNull(df.rows[1]["Ship Mode"])
  /\ IsNull(df.rows[2]["Ship Mode"])
  /\ df.rows[3]["Ship Mode"] = df.rows[1]["Ship Mode"]
  /\ Len(ship_modes_df.rows) = 1

(* The calendar date a cell stands for: of a timestamp its year, month and *)
(* day, of a text the date it spells, of anything else none.               *)
DateOf(c) ==
  IF c.kind = "ts" THEN <<c.y, c.m, c.d>>
  ELSE IF c.kind = "str" /\ IsDateText(c.s)
  THEN <<Num(SubSeq(c.s, 1, 4)), Num(SubSeq(c.s, 6, 7)), Num(SubSeq(c.s, 9, 10))>>
  ELSE <<>>

DateTargets == {"OrderDate", "ShipDate"}

(* C5: once its section has run on a relation that has the 14 source       *)
(* columns, the fact table has the 14 target columns in order and one row  *)
(* per row of the relation in the same order; the i-th target column holds *)
(* the i-th source column's value, the two date columns holding it as the  *)
(* same calendar date (as the timestamp or as its text).                   *)
C5_FactProjection ==
  (HasRun("fact") /\ Required("fact") \subseteq Range(df.columns)) =>
    /\ fact_sales_df # NoFrame
    /\ fact_sales_df.columns = fact_sales_sql_columns
    /\ Len(fact_sales_df.rows) = Len(df.rows)
    /\ \A i \in 1..Len(df.rows) :
         /\ DOMAIN fact_sales_df.rows[i] = Range(fact_sales_sql_columns)
         /\ \A k \in 1..Len(fact_sales_sql_columns) :
              LET target == fact_sales_df.rows[i][fact_sales_sql_columns[k]]
                  source == df.rows[i][fact_sales_df_columns[k]]
              IN IF fact_sales_sql_columns[k] \in DateTargets
                 THEN DateOf(target) = DateOf(source)
                 ELSE target = source
    /\ fs.writable["fact"] => files["fact"] = fact_sales_df

(* The fact table was built and written from three rows of which two are   *)
(* equal and one has missing dates.                                        *)
C5_Witness ==
  /\ pc = "done"
  /\ fact_sales_df # NoFrame
  /\ files["fact"] = fact_sales_df
  /\ Len(fact_sales_df.rows) = 3
  /\ df.rows[1] = df.rows[3]
  /\ df.rows[1]["Order Date"].kind = "ts"
  /\ IsNull(df.rows[2]["Order Date"]) /\ IsNull(df.rows[2]["Ship Date"])

(* The text YYYY-MM-DD of the calendar date of timestamp ts *)
IsYMDOf(cell, ts) ==
  /\ cell.kind = "str"
  /\ Len(cell.s) = 10
  /\ IsDateText(cell.s)
  /\ DateOf(cell) = <<ts.y, ts.m, ts.d>>

DatePairs == {<<"Order Date", "OrderDate">>, <<"Ship Date", "ShipDate">>}

(* C6: for every row whose 'Order Date' (or 'Ship Date') the loader has    *)
(* coerced to a calendar date d in a datetime column, the fact table's     *)
(* OrderDate (or ShipDate) is the text YYYY-MM-DD of d.                    *)
C6_DateRoundTrip ==
  (HasRun("fact") /\ fact_sales_df # NoFrame) =>
    \A p \in DatePairs : \A i \in 1..Len(df.rows) :
      (df.dtypes[p[1]] = "datetime64" /\ df.rows[i][p[1]].kind = "ts")
        => IsYMDOf(fact_sales_df.rows[i][p[2]], df.rows[i][p[1]])

(* C10: when formatting fails on one date column of the fact projection (the *)
(* column is not a datetime column), a warning naming that column is       *)
(* printed, the column keeps its values, the other date column is still    *)
(* formatted when it is a datetime column, and the fact table keeps every  *)
(* row and is written.                                                     *)
C10_FormatFailureIsolated ==
  (HasRun("fact") /\ fact_sales_df # NoFrame) =>
    \A p \in DatePairs : \A q \in DatePairs \ {p} :
      df.dtypes[p[1]] # "datetime64" =>
        /\ \E n \in 1..Len(log) : log[n].kind = "format_warning" /\ log[n].cols = <<p[2]>>
        /\ \A i \in 1..Len(df.rows) : fact_sales_df.rows[i][p[2]] = df.rows[i][p[1]]
        /\ df.dtypes[q[1]] = "datetime64" =>
             \A i \in 1..Len(df.rows) :
               IF df.rows[i][q[1]].kind = "ts"
               THEN IsYMDOf(fact_sales_df.rows[i][q[2]], df.rows[i][q[1]])
               ELSE fact_sales_df.rows[i][q[2]] = NaN
        /\ Len(fact_sales_df.rows) = Len(df.rows)
        /\ fs.writable["fact"] => files["fact"] = fact_sales_df

(* C3: for an input file that exists and parses, when the script has       *)
(* ended exactly the tables that require a column the file lacks have      *)
(* failed; every other table has been built and, when its file can be      *)
(* written, written.                                                       *)
C3_MissingColumnsIsolated ==
  (pc \in {"done", "exited"} /\ input \notin {NoFile, Garbage} /\ fs.folder = "exists") =>
    \A t \in Tables :
      IF Required(t) \subseteq Range(input.columns)
      THEN Built(t) # NoFrame /\ (fs.writable[t] => files[t] = Built(t))
      ELSE Built(t) = NoFrame /\ files[t] = NoFile

(* A table's section has run on a loaded relation that lacks some of the   *)
(* table's columns.                                                        *)
SchemaMismatch(t) ==
  LoadCompleted /\ HasRun(t) /\ ~(Required(t) \subseteq Range(df.columns))

(* The table was not built, no file was written for it and no row of it    *)
(* was counted or formatted.                                               *)
FailedBeforeRows(t) ==
  /\ Built(t) = NoFrame
  /\ files[t] = NoFile
  /\ ~HasMsg("saved", t) /\ ~HasMsg("selected", t) /\ ~HasMsg("formatting", t)

DateColumns == {"Order Date", "Ship Date"}

(* A text of the input that is not a calendar date *)
Uncoercible(c) == c.kind = "str" /\ ~IsDateText(c.s)

(* The input has both date columns, some date text of it is not a date,    *)
(* and the file has been read.                                             *)
BadDatesRead ==
  /\ input \notin {NoFile, Garbage}
  /\ DateColumns \subseteq Range(input.columns)
  /\ \E i \in 1..Len(input.rows) : \E c \in DateColumns : Uncoercible(input.rows[i][c])
  /\ HasMsg("loaded", "")

MissingDateRows ==
  Cardinality({i \in 1..Len(df.rows) : \E c \in DateColumns : IsNull(df.rows[i][c])})

(* Loading went through: the bad texts are NaT, the relation has the rows  *)
(* of the input, a warning was printed and the four tables are attempted.  *)
ToleratedBadDates ==
  /\ LoadCompleted /\ pc # "exited"
  /\ df.columns = input.columns
  /\ Len(df.rows) = Len(input.rows)
  /\ \A i \in 1..Len(input.rows) : \A c \in Range(input.columns) :
       IF c \in DateColumns
       THEN /\ Uncoercible(input.rows[i][c]) => df.rows[i][c] = NaT
            /\ DateOf(df.rows[i][c]) = DateOf(input.rows[i][c])
       ELSE df.rows[i][c] = input.rows[i][c]
  /\ MsgCount("nat_warning", "") = 1
  /\ pc = "done" => \A t \in Tables : MsgCount("creating", t) = 1

(* C9 as stated: when some date texts cannot be coerced, loading does not  *)
(* fail, the values become missing, no row is dropped, the four tables     *)
(* still run, and the warning lists the count of rows with a missing date. *)
C9_WarningListsCounts ==
  BadDatesRead =>
    /\ ToleratedBadDates
    /\ \E n \in 1..Len(log) : log[n].kind = "nat_warning" /\ log[n].n = MissingDateRows

(* C9 as amended: the same, with a warning that carries no count.          *)
C9_BadDatesTolerated ==
  BadDatesRead =>
    /\ ToleratedBadDates
    /\ \A n \in 1..Len(log) : log[n].kind = "nat_warning" => log[n].n = NoCount

(* The script has ended on three rows, the second with a bad order date.   *)
C9_Witness ==
  /\ pc = "done"
  /\ BadDatesRead
  /\ Len(df.rows) = 3
  /\ Uncoercible(input.rows[2]["Order Date"])
  /\ df.rows[2]["Order Date"] = NaT
  /\ df.rows[1]["Order Date"].kind = "ts"

(* The outcome of a table's section that has run *)
SectionOutcome(t) ==
  IF ~(Required(t) \subseteq Range(df.columns))
  THEN HasMsg("missing_columns", t) /\ files[t] = NoFile
  ELSE IF fs.writable[t]
  THEN Built(t) # NoFrame /\ files[t] = Built(t) /\ HasMsg("saved", t)
  ELSE HasMsg("save_error", t)

(* C2: once the load has completed, the four tables are each attempted     *)
(* exactly once, in the order customers, products, ship mode, fact,        *)
(* whatever the outcome of the others: the script is in the table sections *)
(* or past them and has a next step until it is done; the sections that    *)
(* have run were each attempted once, in order, and a missing column or a  *)
(* write error of one was reported, while a table whose columns are        *)
(* present and whose file can be written is written; the sections that     *)
(* have not run have printed and written nothing.                          *)
C2_TablesIndependent ==
  LoadCompleted =>
    /\ Stage(pc) >= 0
    /\ pc # "done" => ENABLED Next
    /\ \A n \in 1..Len(TableOrder) :
         IF n <= Stage(pc)
         THEN /\ MsgCount("creating", TableOrder[n]) = 1
              /\ n > 1 => AttemptIndex(TableOrder[n - 1]) < AttemptIndex(TableOrder[n])
              /\ SectionOutcome(TableOrder[n])
         ELSE MsgCount("creating", TableOrder[n]) = 0 /\ files[TableOrder[n]] = NoFile

(* The script has ended after the customer file could not be written and   *)
(* the product dimension lacked a column; the other two files are written. *)
C2_Witness ==
  /\ pc = "done"
  /\ HasMsg("save_error", "customers")
  /\ HasMsg("missing_columns", "products")
  /\ files["customers"] = NoFile /\ files["products"] = NoFile
  /\ files["shipmode"] = ship_modes_df /\ ship_modes_df # NoFrame
  /\ files["fact"] = fact_sales_df /\ fact_sales_df # NoFrame

(* Nothing of the table sections has happened *)
NoTableTouched ==
  /\ \A t \in Tables : MsgCount("creating", t) = 0 /\ files[t] = NoFile /\ Built(t) = NoFrame

(* C8: when the output folder cannot be created or the input file does not *)
(* exist, the script ends there: no table is attempted and no file is      *)
(* written.  The folder step comes before the load and the load before     *)
(* every table section.                                                    *)
C8_FatalErrorsStop ==
  /\ (HasMsg("folder_error", "") \/ HasMsg("not_found", "")) => pc = "exited" /\ NoTableTouched
  /\ fs.folder = "uncreatable" => ~HasMsg("loading", "") /\ df = NoFrame /\ NoTableTouched
  /\ input = NoFile => df = NoFrame /\ NoTableTouched
  /\ pc = "mkdir" => log = <<>>
  /\ HasMsg("loading", "") => fs.folder = "exists"
  /\ \A n \in 1..Len(log) :
       log[n].kind = "creating" =>
         \E m \in 1..(n - 1) : log[m].kind = "loaded" /\ df # NoFrame
  /\ pc = "exited" => ~ENABLED Next

(* The script has ended at the folder step, or at the load step.           *)
C8_Witness ==
  /\ pc = "exited"
  /\ \/ HasMsg("folder_error", "") /\ input \notin {NoFile, Garbage}
     \/ HasMsg("not_found", "") /\ HasMsg("folder_created", "")

====
